---- MODULE Spec2Model ----
(***************************************************************************)
(* Model of the cross-chain bridge listener of src/script.py: the          *)
(* BridgeOrchestrator's scan / dedupe / relay / checkpoint loop, its state *)
(* file, and process stop and restart.                                     *)
(*                                                                         *)
(* One loop iteration of BridgeOrchestrator.run is split at the points     *)
(* where the process can be stopped and where the claims observe it:       *)
(*   RunStart / RunStartFail   lines 273-278 (first-run initialisation)    *)
(*   RunStartKeyError          line 275 on a document without the key      *)
(*   ReadHead / ReadHeadError  line 282 (raising: lines 317-319)           *)
(*   LoopWait                  lines 284-290                               *)
(*   LoopScan                  lines 284-296                               *)
(*   SkipEvent / RelayEvent    one pass of the for body, lines 298-307     *)
(*   Checkpoint                lines 309-315                               *)
(*   Restart                   the process stops; main() builds a new      *)
(*                             BridgeOrchestrator from the state file      *)
(* Spec is the program with stops and restarts; RetrySpec is Spec with     *)
(* the failed relays recorded; DrainSpec is the loop left running under    *)
(* weak fairness with a standing head and no exception.                    *)
(***************************************************************************)
EXTENDS Integers, Sequences, FiniteSets, TLC

----------------------------------------------------------------------------
(* Bounds of the model *)

\* highest head height the source ledger reports
MaxHead == 3
\* most events one scan returns
MaxEvents == 2
\* most process restarts in one behaviour
MaxRestarts == 1
\* largest configured SCAN_BATCH_SIZE
MaxBatch == 2
\* how far below 0 the checkpoint may be driven before the model stops
MaxDepth == 2

----------------------------------------------------------------------------
(* Values *)

\* Python's None, the unset last_processed_block
None == -1000

\* a state dict without the key 'last_processed_block'
Missing == -2000

\* transaction hashes of the source events
Txs == {"0xa", "0xb"}
NoTx == "none"

\* BLOCK_CONFIRMATIONS_REQUIRED, scaled down from the default 12
confirmations_required == 2

\* SCAN_BATCH_SIZE is int(os.getenv(..)): any integer
BatchSizes == -1 .. MaxBatch

\* ConfigManager.validate: only the five required strings are looked at,
\* every batch size passes
validate(bs) == TRUE

Heads == 0 .. MaxHead

\* the counters of relay calls and of batches tell none, one and several
\* apart
Inc(n) == IF n < 2 THEN n + 1 ELSE n

SetOf(s) == {s[i] : i \in DOMAIN s}

\* list(a_set): the elements in some order
Orderings(S) == {s \in [1 .. Cardinality(S) -> S] : SetOf(s) = S}

----------------------------------------------------------------------------
(* The state file *)

AbsentFile == [kind |-> "absent", lpb |-> None, txs |-> <<>>]
CorruptFile == [kind |-> "corrupt", lpb |-> None, txs |-> <<>>]
\* a file holding a JSON object without the two fields, such as {}
ForeignFile == [kind |-> "foreign", lpb |-> Missing, txs |-> <<>>]

\* _load_state: the JSON document, or the default when the file is absent
\* or cannot be decoded. A decodable document is returned as it is;
\* state.get('processed_transactions', []) of __init__ fills in the list.
_load_state_NoTxs(f) ==
    IF f.kind \in {"valid", "foreign"}
    THEN [last_processed_block |-> f.lpb, processed_transactions |-> <<>>]
    ELSE [last_processed_block |-> None, processed_transactions |-> <<>>]

_load_state(f) ==
    IF f.kind \in {"valid", "foreign"}
    THEN [last_processed_block |-> f.lpb, processed_transactions |-> f.txs]
    ELSE [last_processed_block |-> None, processed_transactions |-> <<>>]

\* the documents _save_state can write for the in-memory state
state_data(lpb, processed) ==
    {[kind |-> "valid", lpb |-> lpb, txs |-> l] : l \in Orderings(processed)}

_save_state_Partial(f, lpb, processed, outcome) ==
    CASE outcome = "ok" -> state_data(lpb, {})
      [] outcome = "open" -> {f}
      [] outcome = "write" -> {CorruptFile}

\* _save_state: the file after the call. "ok" writes the document, "open"
\* is an IOError of open() (file untouched), "write" is an IOError after
\* open(.., 'w') truncated the file. The IOError is caught in both cases.
_save_state(f, lpb, processed, outcome) ==
    CASE outcome = "ok" -> state_data(lpb, processed)
      [] outcome = "open" -> {f}
      [] outcome = "write" -> {CorruptFile}

SaveOutcomes == {"ok", "open", "write"}

----------------------------------------------------------------------------
(* Range computation of run() *)

ConfirmedHead_NoDepth(head) == head

\* line 284 (and 277): the highest confirmed block
ConfirmedHead(head) == head - confirmations_required

FromBlock_Skip(lpb) == lpb + 2

\* line 285
FromBlock(lpb) == lpb + 1

NoWork_Late(from, to) == from > to + 1

\* line 287
NoWork(from, to) == from > to

CapToBlock_OffByOne(from, to, bs) ==
    IF to > from + bs THEN from + bs ELSE to

\* lines 293-294
CapToBlock(from, to, bs) ==
    IF to > from + bs - 1 THEN from + bs - 1 ELSE to

PartialBatch_Always(from, to, bs) == TRUE

\* line 314
PartialBatch(from, to, bs) == to - from < bs - 1

IsProcessed_Never(tx, processed) == FALSE

\* line 300
IsProcessed(tx, processed) == tx \in processed

MarkProcessed_Forget(tx, processed, success) == processed

\* lines 306-307
MarkProcessed(tx, processed, success) ==
    IF success THEN processed \cup {tx} ELSE processed

BatchDone_Always(evs) == TRUE

\* line 298: the for loop has run out of events
BatchDone(evs) == evs = <<>>

----------------------------------------------------------------------------
(* EventScanner.scan_blocks *)

Event == [tx : Txs, blockNumber : Heads]

\* what the ledger can return for a range: up to MaxEvents logs of the
\* range in ascending block order
LogsIn(from, to) ==
    {l \in UNION {[1 .. n -> Event] : n \in 0 .. MaxEvents} :
        /\ \A i \in DOMAIN l : l[i].blockNumber >= from /\ l[i].blockNumber <= to
        /\ \A i \in DOMAIN l : \A j \in DOMAIN l :
               i < j => l[i].blockNumber <= l[j].blockNumber}

\* scan_blocks: [] for an empty range, [] when the RPC call raises, the
\* logs otherwise
scan_blocks(from, to, rpcOk) ==
    IF from > to THEN {<<>>}
    ELSE IF rpcOk THEN LogsIn(from, to)
    ELSE {<<>>}

----------------------------------------------------------------------------
VARIABLES
    scan_batch_size,         \* config.scan_batch_size
    pc,                      \* where the process is
    last_processed_block,    \* self.state['last_processed_block']
    processed_transactions,  \* self.processed_transactions
    latest_block,            \* head height read in this iteration
    from_block, to_block,    \* range of this iteration
    events,                  \* events of the batch not yet looked at
    scan_failed,             \* the scan of this iteration raised
    file,                    \* scanner_state.json
    offer,                   \* the event the last step took from the batch,
                             \* and whether it was skipped or submitted
    slept,                   \* sleep of the last step, in poll intervals
    okCount,                 \* per tx: process_lock_event returned True, ever
    submits,                 \* per tx: process_lock_event calls, this process
    first_outcome,           \* per tx: the first call of this process returned
                             \* True ("ok") or did not ("failed")
    first_run,               \* this process found last_processed_block unset
    start_head,              \* head read by the first-run initialisation
    batches,                 \* ranges handed to the scanner by this process
    loaded,                  \* what __init__ loaded from the file
    restarts,
    covered,                 \* block heights of the ranges this process has
                             \* checkpointed
    lost                     \* the event process_lock_event returned False
                             \* for last, and whether a checkpoint has gone
                             \* past its block since (recorded by RetrySpec)

vars == <<scan_batch_size, pc, last_processed_block, processed_transactions,
          latest_block, from_block, to_block, events, scan_failed, file,
          offer, slept, okCount, submits, first_outcome, first_run,
          start_head, batches, loaded, restarts, covered, lost>>

cfgVars == <<scan_batch_size>>
iterVars == <<latest_block, from_block, to_block, events, scan_failed>>
callVars == <<okCount, submits, first_outcome>>
procVars == <<first_run, start_head, loaded, restarts>>
histVars == <<covered, lost>>

ZeroCount == [t \in Txs |-> 0]
NoOutcome == [t \in Txs |-> "none"]
NoOffer == [tx |-> NoTx, how |-> "none"]
NoLoss == [tx |-> NoTx, blockNumber |-> 0, past |-> FALSE]

\* the locals of an iteration are dead once it ends
ClearIteration ==
    /\ latest_block' = 0
    /\ from_block' = 0
    /\ to_block' = 0
    /\ events' = <<>>
    /\ scan_failed' = FALSE

----------------------------------------------------------------------------
\* main(): ConfigManager(), then BridgeOrchestrator.__init__ on a machine
\* without a state file, or with a file this program did not write
Init ==
    /\ scan_batch_size \in {bs \in BatchSizes : validate(bs)}
    /\ pc = "start"
    /\ file \in {AbsentFile, ForeignFile}
    /\ loaded = _load_state(file)
    /\ last_processed_block = loaded.last_processed_block
    /\ processed_transactions = SetOf(loaded.processed_transactions)
    /\ latest_block = 0
    /\ from_block = 0
    /\ to_block = 0
    /\ events = <<>>
    /\ scan_failed = FALSE
    /\ offer = NoOffer
    /\ slept = 0
    /\ okCount = ZeroCount
    /\ submits = ZeroCount
    /\ first_outcome = NoOutcome
    /\ first_run = FALSE
    /\ start_head = 0
    /\ batches = 0
    /\ restarts = 0
    /\ covered = {}
    /\ lost = NoLoss

\* run(), lines 273-278
RunStart ==
    /\ pc = "start"
    /\ last_processed_block # Missing
    /\ IF last_processed_block = None
       THEN \E head \in Heads :
             /\ last_processed_block' = ConfirmedHead(head)
             /\ first_run' = TRUE
             /\ start_head' = head
       ELSE UNCHANGED <<last_processed_block, first_run, start_head>>
    /\ pc' = "loop"
    /\ offer' = NoOffer
    /\ slept' = 0
    /\ UNCHANGED <<cfgVars, iterVars, callVars, processed_transactions, file,
                   batches, loaded, restarts>>
    /\ UNCHANGED histVars

\* line 277 raising: outside the try of the loop, main() exits
RunStartFail ==
    /\ pc = "start"
    /\ last_processed_block = None
    /\ pc' = "dead"
    /\ offer' = NoOffer
    /\ slept' = 0
    /\ UNCHANGED <<cfgVars, iterVars, callVars, procVars,
                   last_processed_block, processed_transactions, file, batches>>
    /\ UNCHANGED histVars

\* line 275 raising KeyError: the loaded document has no
\* 'last_processed_block'; main() logs the unhandled exception and exits
RunStartKeyError ==
    /\ pc = "start"
    /\ last_processed_block = Missing
    /\ pc' = "dead"
    /\ offer' = NoOffer
    /\ slept' = 0
    /\ UNCHANGED <<cfgVars, iterVars, callVars, procVars,
                   last_processed_block, processed_transactions, file, batches>>
    /\ UNCHANGED histVars

\* line 282
ReadHead ==
    /\ pc = "loop"
    /\ latest_block' \in Heads
    /\ pc' = "range"
    /\ offer' = NoOffer
    /\ slept' = 0
    /\ UNCHANGED <<cfgVars, callVars, procVars, from_block, to_block, events,
                   scan_failed, last_processed_block, processed_transactions,
                   file, batches>>
    /\ UNCHANGED histVars

\* line 282 raising, lines 317-319
ReadHeadError ==
    /\ pc = "loop"
    /\ offer' = NoOffer
    /\ slept' = 2
    /\ UNCHANGED <<cfgVars, iterVars, callVars, procVars, pc,
                   last_processed_block, processed_transactions, file, batches>>
    /\ UNCHANGED histVars

\* lines 284-290
LoopWait ==
    /\ pc = "range"
    /\ NoWork(FromBlock(last_processed_block), ConfirmedHead(latest_block))
    /\ ClearIteration
    /\ pc' = "loop"
    /\ offer' = NoOffer
    /\ slept' = 1
    /\ UNCHANGED <<cfgVars, callVars, procVars, last_processed_block,
                   processed_transactions, file, batches>>
    /\ UNCHANGED histVars

\* lines 284-296
LoopScan ==
    /\ pc = "range"
    /\ LET from == FromBlock(last_processed_block)
           to == CapToBlock(from, ConfirmedHead(latest_block), scan_batch_size)
       IN /\ ~NoWork(from, ConfirmedHead(latest_block))
          /\ to >= -MaxDepth
          /\ from_block' = from
          /\ to_block' = to
          /\ \E rpcOk \in BOOLEAN :
              /\ events' \in scan_blocks(from, to, rpcOk)
              /\ scan_failed' = (from <= to /\ ~rpcOk)
    /\ pc' = "process"
    /\ batches' = Inc(batches)
    /\ offer' = NoOffer
    /\ slept' = 0
    /\ UNCHANGED <<cfgVars, callVars, procVars, latest_block,
                   last_processed_block, processed_transactions, file>>
    /\ UNCHANGED histVars

\* lines 298-302: the event is already in processed_transactions
SkipEvent ==
    /\ pc = "process"
    /\ ~BatchDone(events)
    /\ LET tx == Head(events).tx
       IN /\ IsProcessed(tx, processed_transactions)
          /\ offer' = [tx |-> tx, how |-> "skip"]
    /\ events' = Tail(events)
    /\ slept' = 0
    /\ UNCHANGED <<cfgVars, callVars, procVars, pc, latest_block, from_block,
                   to_block, scan_failed, last_processed_block,
                   processed_transactions, file, batches>>
    /\ UNCHANGED histVars

\* lines 298-307: process_lock_event returns True, returns False, or raises
\* before its try (a log without the expected fields), lines 317-319
RelayEventStep ==
    /\ pc = "process"
    /\ ~BatchDone(events)
    /\ LET tx == Head(events).tx
       IN /\ ~IsProcessed(tx, processed_transactions)
          /\ \E outcome \in {"ok", "fail", "raise"} :
              /\ processed_transactions' =
                     MarkProcessed(tx, processed_transactions, outcome = "ok")
              /\ okCount' = [okCount EXCEPT
                                ![tx] = IF outcome = "ok" THEN Inc(@) ELSE @]
              /\ first_outcome' = [first_outcome EXCEPT
                                ![tx] = IF @ # "none" THEN @
                                        ELSE IF outcome = "ok" THEN "ok"
                                        ELSE "failed"]
              /\ IF outcome = "raise"
                 THEN /\ ClearIteration
                      /\ pc' = "loop"
                      /\ slept' = 2
                 ELSE /\ events' = Tail(events)
                      /\ pc' = pc
                      /\ slept' = 0
                      /\ UNCHANGED <<latest_block, from_block, to_block,
                                     scan_failed>>
          /\ submits' = [submits EXCEPT ![tx] = Inc(@)]
          /\ offer' = [tx |-> tx, how |-> "submit"]
    /\ UNCHANGED <<cfgVars, procVars, last_processed_block, file, batches>>
    /\ UNCHANGED covered

RelayEvent == RelayEventStep /\ UNCHANGED lost

\* the same step, recording the event when process_lock_event returned
\* False for it (line 306 false) and forgetting it when a later call for
\* its hash returned True
RelayEventObserved ==
    /\ RelayEventStep
    /\ LET ev == Head(events)
       IN lost' = IF ev.tx \in processed_transactions' THEN
                      IF lost.tx = ev.tx THEN NoLoss ELSE lost
                  ELSE IF pc' = "process" THEN
                      [tx |-> ev.tx, blockNumber |-> ev.blockNumber,
                       past |-> FALSE]
                  ELSE lost

\* lines 309-315
CheckpointStep ==
    /\ pc = "process"
    /\ BatchDone(events)
    /\ last_processed_block' = to_block
    /\ \E outcome \in SaveOutcomes :
        file' \in _save_state(file, to_block, processed_transactions, outcome)
    /\ slept' = IF PartialBatch(from_block, to_block, scan_batch_size)
                THEN 1 ELSE 0
    /\ ClearIteration
    /\ pc' = "loop"
    /\ offer' = NoOffer
    /\ UNCHANGED <<cfgVars, callVars, procVars, processed_transactions,
                   batches>>
    /\ covered' = covered \cup (from_block .. to_block)

Checkpoint == CheckpointStep /\ UNCHANGED lost

\* the same step, recording that line 309 went past the block of the
\* recorded event
CheckpointObserved ==
    /\ CheckpointStep
    /\ lost' = IF lost.tx # NoTx /\ lost.blockNumber <= to_block
               THEN [lost EXCEPT !.past = TRUE]
               ELSE lost

\* the process is stopped (KeyboardInterrupt, kill, power loss) and main()
\* is run again: __init__ lines 221 and 243
Restart ==
    /\ restarts < MaxRestarts
    /\ restarts' = restarts + 1
    /\ loaded' = _load_state(file)
    /\ last_processed_block' = loaded'.last_processed_block
    /\ processed_transactions' = SetOf(loaded'.processed_transactions)
    /\ pc' = "start"
    /\ ClearIteration
    /\ submits' = ZeroCount
    /\ first_outcome' = NoOutcome
    /\ first_run' = FALSE
    /\ start_head' = 0
    /\ batches' = 0
    /\ offer' = NoOffer
    /\ slept' = 0
    /\ UNCHANGED <<cfgVars, file, okCount>>
    /\ covered' = {}
    /\ UNCHANGED lost

Next ==
    \/ RunStart
    \/ RunStartFail
    \/ RunStartKeyError
    \/ ReadHead
    \/ ReadHeadError
    \/ LoopWait
    \/ LoopScan
    \/ SkipEvent
    \/ RelayEvent
    \/ Checkpoint
    \/ Restart

Spec == Init /\ [][Next]_vars

\* the same program with the failed relays of checkpointed batches recorded
RetryNext ==
    \/ RunStart
    \/ RunStartFail
    \/ RunStartKeyError
    \/ ReadHead
    \/ ReadHeadError
    \/ LoopWait
    \/ LoopScan
    \/ SkipEvent
    \/ RelayEventObserved
    \/ CheckpointObserved
    \/ Restart

RetrySpec == Init /\ [][RetryNext]_vars

\* The loop left to run, with the source head standing at MaxHead and no
\* exception: no state file to start from, line 282 returns MaxHead,
\* process_lock_event returns True or False, the process is not stopped.
DrainInit == Init /\ file = AbsentFile

ReadHeadStalled == ReadHead /\ latest_block' = MaxHead

RelayEventReturns == RelayEvent /\ pc' = "process"

DrainNext ==
    \/ RunStart
    \/ ReadHeadStalled
    \/ LoopWait
    \/ LoopScan
    \/ SkipEvent
    \/ RelayEventReturns
    \/ Checkpoint

\* run() is one sequential while loop whose calls and sleeps return, so a
\* process that is not stopped keeps taking its next step
DrainSpec == DrainInit /\ [][DrainNext]_vars /\ WF_vars(DrainNext)

TypeOK ==
    /\ scan_batch_size \in BatchSizes
    /\ pc \in {"start", "loop", "range", "process", "dead"}
    /\ processed_transactions \subseteq Txs
    /\ latest_block \in Heads
    /\ slept \in 0 .. 2
    /\ offer.tx \in Txs \cup {NoTx}
    /\ restarts \in 0 .. MaxRestarts

----------------------------------------------------------------------------
(* Properties *)

Min(a, b) == IF a < b THEN a ELSE b

LoadedIds == SetOf(loaded.processed_transactions)

\* the step is taken by the running process (it is not a stop and restart)
SameProcess == restarts' = restarts

\* C1: no source event (transaction hash) is relayed successfully more than
\* once, restarts included.
AtMostOnceRelay == \A t \in Txs : okCount[t] <= 1

\* C2: whenever process_lock_event is invoked for an event, the event's
\* transaction hash is not in processed_transactions at that moment; and a
\* hash once in the set stays in it for the life of the process.
DedupGate ==
    /\ [][offer'.how = "submit" => offer'.tx \notin processed_transactions]_vars
    /\ [][SameProcess => processed_transactions \subseteq processed_transactions']_vars

\* an event is submitted while the set holds a hash loaded from the file
DedupGateWitness ==
    /\ offer.how = "submit"
    /\ LoadedIds # {}
    /\ LoadedIds \subseteq processed_transactions
    /\ offer.tx \notin LoadedIds

\* C3 as stated: a transaction hash offered again to the for body never
\* reaches process_lock_event a second time, whatever the first call returned.
SubmitOnceWhateverOutcome == \A t \in Txs : submits[t] <= 1

\* C3 amended: within one process, a transaction hash whose first
\* process_lock_event call returned True is submitted exactly once, however
\* often it is offered again.
SubmitOnceAfterSuccess ==
    \A t \in Txs : first_outcome[t] = "ok" => submits[t] = 1

\* an event is offered again after its hash was relayed by this process
SubmitOnceWitness ==
    /\ offer.how = "skip"
    /\ first_outcome[offer.tx] = "ok"

\* C4: an iteration whose scan failed leaves last_processed_block as it was.
ScanFailureKeepsCheckpoint ==
    [][(scan_failed /\ SameProcess) =>
           last_processed_block' = last_processed_block]_vars

\* C5: once set, last_processed_block never decreases while the loop runs.
CheckpointMonotone ==
    [][(last_processed_block # None /\ SameProcess) =>
           last_processed_block' >= last_processed_block]_vars

\* C6: the range handed to the scanner, and every value the run writes to
\* last_processed_block, ends at or below head - confirmations_required for
\* the head read just before.
ConfirmationSafety ==
    /\ [](pc = "process" => to_block <= latest_block - confirmations_required)
    /\ [][(pc = "process" /\ SameProcess) =>
            \/ last_processed_block' = last_processed_block
            \/ last_processed_block' <= latest_block - confirmations_required]_vars
    /\ [][(pc = "start" /\ pc' = "loop" /\ last_processed_block = None) =>
            last_processed_block' <= start_head' - confirmations_required]_vars

\* a batch that reaches the confirmed head exactly
ConfirmationSafetyWitness ==
    /\ pc = "process"
    /\ from_block <= to_block
    /\ to_block = latest_block - confirmations_required
    /\ events # <<>>

\* C7: on a first run the first range starts at the confirmed head (that
\* of the first-run initialisation, or that of the iteration); otherwise a
\* range starts at last_processed_block + 1. Stated for a valid batch size.
FirstRunSkip ==
    (pc = "process" /\ scan_batch_size >= 1) =>
        IF first_run /\ batches = 1
        THEN \/ from_block = start_head - confirmations_required
             \/ from_block = latest_block - confirmations_required
        ELSE from_block = last_processed_block + 1

\* C8: with scan_batch_size >= 1 the range is from = last_processed_block + 1,
\* to = min(confirmed head, from + scan_batch_size - 1); it is not empty and
\* holds at most scan_batch_size blocks.
BatchCapping ==
    (pc = "process" /\ scan_batch_size >= 1) =>
        /\ from_block = last_processed_block + 1
        /\ to_block = Min(latest_block - confirmations_required,
                          from_block + scan_batch_size - 1)
        /\ from_block <= to_block
        /\ to_block - from_block + 1 <= scan_batch_size

\* a range cut short by the batch size
BatchCappingWitness ==
    /\ pc = "process"
    /\ scan_batch_size >= 1
    /\ to_block = from_block + scan_batch_size - 1
    /\ to_block < latest_block - confirmations_required

\* C9: when last_processed_block + 1 > head - confirmations_required, the
\* iteration scans nothing, relays nothing, leaves last_processed_block,
\* processed_transactions and the state file as they were, sleeps one poll
\* interval and goes back to the head query.
WaitCondition ==
    [][(/\ pc = "range"
        /\ SameProcess
        /\ last_processed_block + 1 > latest_block - confirmations_required)
       => /\ pc' = "loop"
          /\ slept' = 1
          /\ batches' = batches
          /\ offer'.how = "none"
          /\ UNCHANGED <<last_processed_block, processed_transactions, file,
                         okCount, submits>>]_vars

\* the loop has waited on a checkpoint that is ahead of the confirmed head
WaitConditionWitness ==
    /\ pc = "loop"
    /\ slept = 1
    /\ batches = 0
    /\ restarts = 1
    /\ file.kind = "valid"
    /\ last_processed_block = file.lpb

\* C10: what _save_state wrote is what a fresh process loads; the first
\* range of a process started on a checkpoint with height h starts at h + 1;
\* an event whose hash was loaded is never submitted.
RestartRecovery ==
    /\ [][(pc = "process" /\ SameProcess /\ file' # file /\ file'.kind = "valid") =>
            /\ _load_state(file').last_processed_block = last_processed_block'
            /\ SetOf(_load_state(file').processed_transactions)
                   = processed_transactions']_vars
    /\ [][(~SameProcess /\ file.kind = "valid") =>
            /\ last_processed_block' = file.lpb
            /\ processed_transactions' = SetOf(file.txs)
            /\ pc' = "start"]_vars
    /\ []((pc = "process" /\ batches = 1
              /\ loaded.last_processed_block # None) =>
            from_block = loaded.last_processed_block + 1)
    /\ [](offer.how = "submit" => offer.tx \notin LoadedIds)

\* a restarted process, in its first range, skips an event it loaded
RestartRecoveryWitness ==
    /\ restarts >= 1
    /\ batches = 1
    /\ loaded.last_processed_block # None
    /\ from_block = loaded.last_processed_block + 1
    /\ offer.how = "skip"
    /\ offer.tx \in LoadedIds

\* C11: last_processed_block and the state file are written only by the
\* step that ends a batch, when no event of the batch is left to offer; a
\* batch all of whose events were offered is ended by that write; and a
\* batch starts only from the range computation, so a batch has one write.
CheckpointOrdering ==
    /\ [][(/\ SameProcess
           /\ pc # "start"
           /\ \/ last_processed_block' # last_processed_block
              \/ file' # file)
          => /\ pc = "process"
             /\ events = <<>>
             /\ pc' = "loop"]_vars
    /\ [][(pc = "process" /\ events = <<>> /\ SameProcess) =>
            /\ last_processed_block' = to_block
            /\ pc' = "loop"]_vars
    /\ [][(pc # "process" /\ pc' = "process") =>
            (pc = "range" /\ UNCHANGED <<last_processed_block, file>>)]_vars
    /\ [][(pc = "process" /\ events # <<>> /\ SameProcess) =>
            UNCHANGED <<last_processed_block, file>>]_vars

\* a batch of two events was offered and then checkpointed to the file
CheckpointOrderingWitness ==
    /\ pc = "loop"
    /\ restarts = 0
    /\ batches = 1
    /\ Cardinality(processed_transactions) = 2
    /\ file.kind = "valid"
    /\ file.lpb = last_processed_block
    /\ SetOf(file.txs) = processed_transactions

\* C12: every identifier in processed_transactions belongs to an event whose
\* block is at or below last_processed_block, during a batch too: stated at
\* the step that adds an identifier, for the event that adds it.
CheckpointInvariant ==
    [][(/\ pc = "process"
        /\ events # <<>>
        /\ SameProcess
        /\ processed_transactions' # processed_transactions)
       => Head(events).blockNumber <= last_processed_block']_vars

\* C13: no exception raised in run() ends the process: the process is
\* never left dead by its own exception, and a step that fails (the head
\* query, the handling of an event) sleeps two poll intervals and goes back
\* to the head query.
ExceptionContainment ==
    /\ [](pc # "dead")
    /\ [][(pc = "loop" /\ pc' = "loop" /\ SameProcess) => slept' = 2]_vars
    /\ [][(pc = "process" /\ events # <<>> /\ pc' = "loop" /\ SameProcess) =>
            slept' = 2]_vars

\* C15: in an iteration whose confirmed head is negative the loop waits;
\* no range with a negative block is handed to the scanner and no batch
\* writes a negative last_processed_block. Stated for a valid batch size.
NegativeWindowWaits ==
    /\ [][(/\ scan_batch_size >= 1
           /\ pc = "range"
           /\ SameProcess
           /\ latest_block - confirmations_required < 0)
          => /\ pc' = "loop"
             /\ slept' = 1
             /\ UNCHANGED <<last_processed_block, batches, file>>]_vars
    /\ []((scan_batch_size >= 1 /\ pc = "process") => from_block >= 0)
    /\ [][(scan_batch_size >= 1 /\ pc = "process" /\ SameProcess) =>
            \/ last_processed_block' = last_processed_block
            \/ last_processed_block' >= 0]_vars

\* C16: a SCAN_BATCH_SIZE below 1 is rejected at startup, so run() never
\* executes with scan_batch_size <= 0.
BatchSizeValidated ==
    pc \in {"loop", "range", "process"} => scan_batch_size >= 1

\* C17: whenever the process starts from a state file that is absent,
\* corrupt, or a JSON document without the expected fields, the loaded
\* state is the default: last_processed_block unset and no processed
\* transactions.
LoadDefaulting ==
    (pc = "start" /\ file.kind # "valid") =>
        /\ last_processed_block = None
        /\ processed_transactions = {}

PersistenceFailure ==
    [][(pc = "process" /\ events = <<>> /\ SameProcess) =>
          /\ pc' = "loop" /\ slept' # 2
          /\ last_processed_block' = to_block
          /\ processed_transactions' = processed_transactions
          /\ \/ file' = file
             \/ file' = CorruptFile
             \/ /\ file'.kind = "valid"
                /\ file'.lpb = last_processed_block'
                /\ SetOf(file'.txs) = processed_transactions']_vars

\* the write of the first batch failed and left the file truncated; the
\* process kept the relayed hash and the new height and is in its next batch
PersistenceFailureWitness ==
    /\ restarts = 0 /\ batches = 2 /\ pc = "process"
    /\ file = CorruptFile
    /\ processed_transactions # {}
    /\ from_block = last_processed_block + 1
    /\ last_processed_block >= 0

\* the height the loop of this process started from: the first-run value of
\* line 277, or the loaded one
InitialCheckpoint ==
    IF first_run THEN ConfirmedHead(start_head)
    ELSE loaded.last_processed_block

\* C19: within one process with scan_batch_size >= 1, every range handed to
\* the scanner starts at last_processed_block + 1, is not empty and shares
\* no block with an earlier checkpointed range; the checkpoint step leaves
\* last_processed_block = to_block; so the checkpointed blocks are exactly
\* the heights above the initial checkpoint up to last_processed_block.
ContiguousCoverage ==
    /\ []((scan_batch_size >= 1 /\ pc = "process") =>
            /\ from_block = last_processed_block + 1
            /\ from_block <= to_block
            /\ (from_block .. to_block) \cap covered = {})
    /\ [][(/\ scan_batch_size >= 1 /\ pc = "process" /\ events = <<>>
           /\ SameProcess)
          => /\ last_processed_block' = to_block
             /\ covered' = covered \cup (from_block .. to_block)]_vars
    /\ []((scan_batch_size >= 1 /\ pc \in {"loop", "range", "process"}) =>
            covered = (InitialCheckpoint + 1) .. last_processed_block)

\* two one-block ranges have been checkpointed by one process
ContiguousCoverageWitness ==
    /\ scan_batch_size = 1 /\ pc = "loop"
    /\ Cardinality(covered) = 2
    /\ covered = (InitialCheckpoint + 1) .. last_processed_block

\* C20: with scan_batch_size >= 1, every checkpoint step strictly increases
\* last_processed_block; it is followed by no sleep after a full batch
\* (to_block - from_block = scan_batch_size - 1) and by one poll interval
\* after any other batch; so with the head standing at MaxHead and no
\* exception the loop reaches last_processed_block = MaxHead -
\* confirmations_required and from then on only reads the head and waits.
BacklogDrain ==
    /\ [][(scan_batch_size >= 1 /\ pc = "process" /\ events = <<>>) =>
            /\ last_processed_block' > last_processed_block
            /\ slept' = IF to_block - from_block = scan_batch_size - 1
                        THEN 0 ELSE 1]_vars
    /\ [][(/\ scan_batch_size >= 1 /\ pc = "range"
           /\ last_processed_block = ConfirmedHead(MaxHead))
          => /\ pc' = "loop" /\ slept' = 1
             /\ UNCHANGED <<last_processed_block, batches, file>>]_vars
    /\ <>[](scan_batch_size >= 1 =>
              /\ last_processed_block = ConfirmedHead(MaxHead)
              /\ pc \in {"loop", "range"})

\* two full one-block batches drained the backlog without a sleep between
\* them, and the loop has taken its first wait at the confirmed head
BacklogDrainWitness ==
    /\ scan_batch_size = 1 /\ batches = 2
    /\ Cardinality(covered) = 2
    /\ last_processed_block = ConfirmedHead(MaxHead)
    /\ pc = "loop" /\ slept = 1

====
